---- MODULE Spec2Model ----
(***************************************************************************)
(* A model of packages/wrangler/src/cfetch/internal.ts: the fetch wrapper  *)
(* that attaches authentication to a Cloudflare API request and normalises *)
(* the response.  One behaviour of the model is one call of one of the     *)
(* exported functions; the awaits of the code (loginOrRefreshIfRequired,   *)
(* fetch) are the points where the environment chooses a result.           *)
(***************************************************************************)
EXTENDS Naturals, Sequences, FiniteSets, TLC

VARIABLES
    pc,        \* position of the call: idle, login, ready, fetch, done
    op,        \* the exported function that was called
    resource,  \* the resource argument
    init,      \* the caller's init.headers / bodyInit.headers value (HeadersInit)
    loggedIn,  \* what loginOrRefreshIfRequired resolved to ("pending" before)
    auth,      \* what requireApiToken returned (NoAuth before)
    headers,   \* the local `headers` record that is handed to fetch
    logged,    \* the header sets handed to logger.debugWithSanitization("HEADERS:", ..)
    sent,      \* the requests handed to fetch, in order
    response,  \* the response fetch resolved to (NoResponse before)
    outcome    \* how the call ended: returned value or thrown error

vars == <<pc, op, resource, init, loggedIn, auth, headers, logged, sent, response, outcome>>

----------------------------------------------------------------------------
(* Bounds of the model.                                                    *)

\* the largest number of header entries a caller supplies
MaxHeaders == 2
\* the largest number of entries of a multipart worker response
MaxEntries == 2

----------------------------------------------------------------------------
(* Strings.                                                                *)

\* String.prototype.startsWith
StartsWith(s, prefix) ==
    Len(s) >= Len(prefix) /\ SubSeq(s, 1, Len(prefix)) = prefix

\* the byte-lowercasing of a header name that the Headers class applies
Lower(name) ==
    CASE name = "Authorization" -> "authorization"
      [] name = "X-Auth-Key"    -> "x-auth-key"
      [] name = "X-Auth-Email"  -> "x-auth-email"
      [] name = "User-Agent"    -> "user-agent"
      [] name = "Content-Type"  -> "content-type"
      [] OTHER                  -> name

\* the lower-case header names of the model in the order Headers iterates them
SortedNames ==
    <<"authorization", "cf-entrypoint", "content-type", "user-agent",
      "x-auth-email", "x-auth-key">>

----------------------------------------------------------------------------
(* A Record<string, string>: a sequence of <<name, value>> pairs with      *)
(* distinct names, in insertion order (the property order of a JS object). *)

\* `name in headers`
Has(h, name) == \E i \in 1..Len(h) : h[i][1] = name

\* headers[name], for a name that is present
Get(h, name) == h[CHOOSE i \in 1..Len(h) : h[i][1] = name][2]

\* headers[name] = value
Set(h, name, value) ==
    IF Has(h, name)
    THEN [i \in 1..Len(h) |-> IF h[i][1] = name THEN <<name, value>> ELSE h[i]]
    ELSE Append(h, <<name, value>>)

\* delete headers[name]
Delete(h, name) == SelectSeq(h, LAMBDA p : p[1] # name)

\* Object.fromEntries(pairs): a later pair of the same name overwrites
RECURSIVE fromEntries(_)
fromEntries(pairs) ==
    IF pairs = <<>>
    THEN <<>>
    ELSE LET last == pairs[Len(pairs)]
         IN  Set(fromEntries(SubSeq(pairs, 1, Len(pairs) - 1)), last[1], last[2])

\* the values of the pairs whose lower-cased name is `lname`, joined by ", "
RECURSIVE Combined(_, _)
Combined(list, lname) ==
    IF list = <<>>
    THEN <<>>
    ELSE LET rest == Combined(Tail(list), lname)
         IN  IF Lower(list[1][1]) # lname THEN rest
             ELSE IF rest = <<>> THEN <<list[1][2]>>
             ELSE <<list[1][2] \o ", " \o rest[1]>>

\* Headers.prototype.entries(): names lower-cased, sorted, values combined
RECURSIVE entriesFrom(_, _)
entriesFrom(list, k) ==
    IF k > Len(SortedNames)
    THEN <<>>
    ELSE LET c == Combined(list, SortedNames[k])
         IN  (IF c = <<>> THEN <<>> ELSE <<<<SortedNames[k], c[1]>>>>)
             \o entriesFrom(list, k + 1)

entries(list) == entriesFrom(list, 1)

\* Headers.prototype.get(name): case-insensitive; NoHeader stands for null
NoHeader == "<null>"

HeadersGet(list, name) ==
    LET c == Combined(list, Lower(name))
    IN  IF c = <<>> THEN NoHeader ELSE c[1]

----------------------------------------------------------------------------
(* The values a call works on.                                             *)

\* ApiCredentials: { apiToken } or { authKey, authEmail }
ApiCredentials ==
    { [apiToken |-> "tok"], [authKey |-> "key", authEmail |-> "me@example.com"] }

NoAuth == [none |-> TRUE]

\* the header names and values a caller supplies
CallerNames == {"Authorization", "authorization", "X-Auth-Key"}
CallerValues == {"Bearer caller", "other"}
CallerPairs == CallerNames \X CallerValues

PairLists == UNION { [1..n -> CallerPairs] : n \in 0..MaxHeaders }

DistinctNames(list) ==
    \A i, j \in 1..Len(list) : list[i][1] = list[j][1] => i = j

\* HeadersInit | undefined: a Headers instance (the pairs given to it), an
\* array of pairs, a plain object, or nothing
HeadersInit ==
    { [form |-> "Headers", list |-> l] : l \in PairLists }
    \cup { [form |-> "array", list |-> l] : l \in PairLists }
    \cup { [form |-> "object", list |-> l] : l \in { x \in PairLists : DistinctNames(x) } }
    \cup { [form |-> "undefined", list |-> <<>>] }

Resources == {"/accounts/a/workers", "accounts/a/workers"}

\* the resource fetchKVGetValue builds from its arguments (below the base URL)
KVResource == "/accounts/a/storage/kv/namespaces/n/values/k"

Statuses == {200, 204, 205, 404, 500}

\* Response.ok
Ok(status) == status \in 200..299

emptyBody == "{\"result\": {}, \"success\": true, \"errors\": [], \"messages\": []}"

LongText ==
    "<html><head><title>502 Bad Gateway</title></head><body><center><h1>502 Bad Gateway</h1></center><hr><center>cloudflare</center></body></html>"

\* the response bodies of the model: nothing, two envelopes, two non-JSON texts
Texts == {"", emptyBody, "{\"result\": 1, \"success\": true}", "<html>", LongText}

\* parseJSON: the parsed value, or NotJSON where it throws
NotJSON == [parse |-> "error"]

parseJSON(text) ==
    CASE text = emptyBody ->
           [result |-> "{}", success |-> TRUE, errors |-> <<>>, messages |-> <<>>]
      [] text = "{\"result\": 1, \"success\": true}" ->
           [result |-> "1", success |-> TRUE]
      [] OTHER -> NotJSON

\* one entry of a multipart form: its field name, and whether its contents are
\* a File (which then carries its own name) or a string
FormEntries ==
    { [name |-> "index.js", isFile |-> TRUE,  fileName |-> "src/index.js"],
      [name |-> "lib.js",   isFile |-> FALSE, fileName |-> ""] }

Forms == UNION { [1..n -> FormEntries] : n \in 0..MaxEntries }

NoResponse == [none |-> TRUE]

\* Response.statusText, as the server sets it for the statuses of the model
StatusText(status) ==
    CASE status = 200 -> "OK"
      [] status = 204 -> "No Content"
      [] status = 205 -> "Reset Content"
      [] status = 404 -> "Not Found"
      [] OTHER        -> "Internal Server Error"

\* a Response: body says whether response.body is non-null, headers is the
\* list its Headers instance was filled from, text and form what text() and
\* formData() resolve to
Response(status, body, hdrs, text, form) ==
    [status |-> status, statusText |-> StatusText(status), ok |-> Ok(status),
     body |-> body, headers |-> hdrs, text |-> text, form |-> form]

\* what fetch can resolve to, for each function (only the parts it reads vary)
StatusResponses ==
    { Response(s, b, <<>>, "", <<>>) : s \in Statuses, b \in BOOLEAN }

TextResponses ==
    { Response(s, t # "", h, t, <<>>) :
        s \in Statuses, t \in Texts,
        h \in { <<>>, << <<"Authorization", "Bearer server">> >> } }

WorkerHeaders ==
    { ct \o ep :
        ct \in { <<>>, << <<"Content-Type", "multipart/form-data; boundary=x">> >>,
                 << <<"content-type", "application/javascript">> >> },
        ep \in { <<>>, << <<"cf-entrypoint", "main.js">> >> } }

WorkerResponses ==
    { Response(s, FALSE, h, "", <<>>) : s \in Statuses, h \in WorkerHeaders }
    \cup { r \in { Response(s, TRUE, h, "export default {}", f) :
                     s \in Statuses, h \in WorkerHeaders, f \in Forms } :
             r.form # <<>> => StartsWith(HeadersGet(r.headers, "content-type"), "multipart") }

ResponsesOf(o) ==
    CASE o = "fetchInternal" -> TextResponses
      [] o = "fetchWorker"   -> WorkerResponses
      [] OTHER               -> StatusResponses

----------------------------------------------------------------------------
(* How a call ends.                                                        *)

NoOutcome == [kind |-> "none"]
Return(value) == [kind |-> "return", value |-> value]
Throw(error) == [kind |-> "throw", error |-> error]

----------------------------------------------------------------------------
(* The helpers of internal.ts.                                             *)

\* init.method ?? "GET": the callers of the model leave the method unset
method == "GET"

truncate(text, maxLength) ==
    IF Len(text) <= maxLength
    THEN text
    ELSE SubSeq(text, 1, maxLength) \o "... (length = " \o ToString(Len(text)) \o ")"

cloneHeaders(h) ==
    IF h.form = "Headers" THEN fromEntries(entries(h.list))
    ELSE IF h.form = "array" THEN fromEntries(h.list)
    ELSE h.list

\* a Record<string, string> seen as a HeadersInit
Record(h) == [form |-> "object", list |-> h]

\* variant with a seeded fault: the token is sent without its "Bearer " scheme
addAuthorizationHeaderWithoutScheme(h, a) ==
    IF ~Has(h, "Authorization")
    THEN IF "apiToken" \in DOMAIN a
         THEN Set(h, "Authorization", a.apiToken)
         ELSE Set(Set(h, "X-Auth-Key", a.authKey), "X-Auth-Email", a.authEmail)
    ELSE h

addAuthorizationHeaderIfUnspecified(h, a) ==
    IF ~Has(h, "Authorization")
    THEN IF "apiToken" \in DOMAIN a
         THEN Set(h, "Authorization", "Bearer " \o a.apiToken)
         ELSE Set(Set(h, "X-Auth-Key", a.authKey), "X-Auth-Email", a.authEmail)
    ELSE h

\* the version of package.json
wranglerVersion == "0.0.0"

addUserAgent(h) == Set(h, "User-Agent", "wrangler/" \o wranglerVersion)

\* const logHeaders = cloneHeaders(..); delete logHeaders["Authorization"]
logHeaders(h) == Delete(cloneHeaders(h), "Authorization")

FailedToFetch(res, r) ==
    [type |-> "Error",
     text |-> "Failed to fetch " \o res \o " - " \o ToString(r.status) \o ": "
              \o r.statusText \o ");"]

\* variant with a seeded fault: only 204 is taken as a response without a body
fetchInternalResult204Only(res, r) ==
    IF r.text = "" /\ r.status = 204
    THEN Return(parseJSON(emptyBody))
    ELSE IF parseJSON(r.text) # NotJSON
    THEN Return(parseJSON(r.text))
    ELSE Throw([type |-> "APIError",
                text |-> "Received a malformed response from the API",
                notes |-> << truncate(r.text, 100),
                             method \o " " \o res \o " -> " \o ToString(r.status)
                               \o " " \o r.statusText >>,
                status |-> r.status])

\* variant with a seeded fault: a body that is not JSON is an error only on an error status
fetchInternalResultLenient(res, r) ==
    IF r.text = "" /\ (r.status = 204 \/ r.status = 205)
    THEN Return(parseJSON(emptyBody))
    ELSE IF parseJSON(r.text) # NotJSON
    THEN Return(parseJSON(r.text))
    ELSE IF r.ok
    THEN Return([result |-> r.text, success |-> TRUE])
    ELSE Throw([type |-> "APIError",
                text |-> "Received a malformed response from the API",
                notes |-> << truncate(r.text, 100),
                             method \o " " \o res \o " -> " \o ToString(r.status)
                               \o " " \o r.statusText >>,
                status |-> r.status])

\* fetchInternal, from the response on: what it returns or throws
fetchInternalResult(res, r) ==
    IF r.text = "" /\ (r.status = 204 \/ r.status = 205)
    THEN Return(parseJSON(emptyBody))
    ELSE IF parseJSON(r.text) # NotJSON
    THEN Return(parseJSON(r.text))
    ELSE Throw([type |-> "APIError",
                text |-> "Received a malformed response from the API",
                notes |-> << truncate(r.text, 100),
                             method \o " " \o res \o " -> " \o ToString(r.status)
                               \o " " \o r.statusText >>,
                status |-> r.status])

\* fetchKVGetValue, from the response on
fetchKVGetValueResult(res, r) ==
    IF r.ok
    THEN Return([tag |-> "arrayBuffer", response |-> r])
    ELSE Throw(FailedToFetch(res, r))

\* variant with a seeded fault: the body of an ok response is not looked at
fetchR2ObjectsResultAnyBody(res, r) ==
    IF r.ok
    THEN Return([tag |-> "response", response |-> r])
    ELSE IF r.status = 404
    THEN Return([tag |-> "null"])
    ELSE Throw(FailedToFetch(res, r))

\* fetchR2Objects, from the response on
fetchR2ObjectsResult(res, r) ==
    IF r.ok /\ r.body
    THEN Return([tag |-> "response", response |-> r])
    ELSE IF r.status = 404
    THEN Return([tag |-> "null"])
    ELSE Throw(FailedToFetch(res, r))

\* contents instanceof File ? contents : new File([contents], filename)
ModuleOf(entry) ==
    [name |-> IF entry.isFile THEN entry.fileName ELSE entry.name]

\* variant with a seeded fault: the default entrypoint of a multipart worker is that of a plain one
fetchWorkerResultPlainDefault(res, r) ==
    IF ~r.ok \/ ~r.body
    THEN Throw(FailedToFetch(res, r))
    ELSE IF HeadersGet(r.headers, "content-type") # NoHeader
            /\ StartsWith(HeadersGet(r.headers, "content-type"), "multipart")
    THEN Return([tag |-> "worker",
                 entrypoint |-> IF HeadersGet(r.headers, "cf-entrypoint") # NoHeader
                                THEN HeadersGet(r.headers, "cf-entrypoint")
                                ELSE "index.js",
                 modules |-> [i \in 1..Len(r.form) |-> ModuleOf(r.form[i])]])
    ELSE Return([tag |-> "worker",
                 entrypoint |-> "index.js",
                 modules |-> << [name |-> "index.js"] >>])

\* fetchWorker, from the response on
fetchWorkerResult(res, r) ==
    IF ~r.ok \/ ~r.body
    THEN Throw(FailedToFetch(res, r))
    ELSE IF HeadersGet(r.headers, "content-type") # NoHeader
            /\ StartsWith(HeadersGet(r.headers, "content-type"), "multipart")
    THEN Return([tag |-> "worker",
                 entrypoint |-> IF HeadersGet(r.headers, "cf-entrypoint") # NoHeader
                                THEN HeadersGet(r.headers, "cf-entrypoint")
                                ELSE "src/index.js",
                 modules |-> [i \in 1..Len(r.form) |-> ModuleOf(r.form[i])]])
    ELSE Return([tag |-> "worker",
                 entrypoint |-> "index.js",
                 modules |-> << [name |-> "index.js"] >>])

----------------------------------------------------------------------------
(* The call, step by step.                                                 *)

Init ==
    /\ pc = "idle"
    /\ op = "none"
    /\ resource = ""
    /\ init = [form |-> "undefined", list |-> <<>>]
    /\ loggedIn = "pending"
    /\ auth = NoAuth
    /\ headers = <<>>
    /\ logged = <<>>
    /\ sent = <<>>
    /\ response = NoResponse
    /\ outcome = NoOutcome

\* the entry of performApiFetch, directly or from fetchInternal: the assert on
\* the resource, then the await of requireLoggedIn
performApiFetchCall ==
    /\ pc = "idle"
    /\ \E o \in {"performApiFetch", "fetchInternal"}, res \in Resources, h \in HeadersInit :
          /\ op' = o
          /\ resource' = res
          /\ init' = h
          /\ IF StartsWith(res, "/")
             THEN pc' = "login" /\ outcome' = outcome
             ELSE /\ pc' = "done"
                  /\ outcome' = Throw([type |-> "AssertionError",
                                       text |-> "CF API fetch - resource path must start with a \"/\" but got \""
                                                \o res \o "\""])
    /\ UNCHANGED <<loggedIn, auth, headers, logged, sent, response>>

fetchKVGetValueCall ==
    /\ pc = "idle"
    /\ op' = "fetchKVGetValue"
    /\ resource' = KVResource
    /\ pc' = "login"
    /\ UNCHANGED <<init, loggedIn, auth, headers, logged, sent, response, outcome>>

\* the entry of fetchR2Objects and of fetchWorker
bodyInitCall ==
    /\ pc = "idle"
    /\ \E o \in {"fetchR2Objects", "fetchWorker"}, res \in Resources, h \in HeadersInit :
          /\ op' = o
          /\ resource' = res
          /\ init' = h
    /\ pc' = "login"
    /\ UNCHANGED <<loggedIn, auth, headers, logged, sent, response, outcome>>

\* variant with a seeded fault: the result of loginOrRefreshIfRequired is not looked at
requireLoggedInUnchecked ==
    /\ pc = "login"
    /\ \E result \in BOOLEAN :
          loggedIn' = (IF result THEN "true" ELSE "false")
    /\ pc' = "ready"
    /\ UNCHANGED <<op, resource, init, auth, headers, logged, sent, response, outcome>>

\* loginOrRefreshIfRequired resolves
requireLoggedIn ==
    /\ pc = "login"
    /\ \E result \in BOOLEAN :
          /\ loggedIn' = (IF result THEN "true" ELSE "false")
          /\ IF result
             THEN pc' = "ready" /\ outcome' = outcome
             ELSE /\ pc' = "done"
                  /\ outcome' = Throw([type |-> "UserError", text |-> "Not logged in."])
    /\ UNCHANGED <<op, resource, init, auth, headers, logged, sent, response>>

\* performApiFetch from requireApiToken to the call of fetch
performApiFetchRequest ==
    /\ pc = "ready"
    /\ op \in {"performApiFetch", "fetchInternal"}
    /\ \E apiToken \in ApiCredentials :
          LET h == addUserAgent(
                     addAuthorizationHeaderIfUnspecified(cloneHeaders(init), apiToken))
          IN  /\ auth' = apiToken
              /\ headers' = h
              /\ logged' = Append(logged, logHeaders(Record(h)))
              /\ sent' = Append(sent, [resource |-> resource, headers |-> h])
    /\ pc' = "fetch"
    /\ UNCHANGED <<op, resource, init, loggedIn, response, outcome>>

fetchKVGetValueRequest ==
    /\ pc = "ready"
    /\ op = "fetchKVGetValue"
    /\ \E a \in ApiCredentials :
          LET h == addAuthorizationHeaderIfUnspecified(<<>>, a)
          IN  /\ auth' = a
              /\ headers' = h
              /\ sent' = Append(sent, [resource |-> resource, headers |-> h])
    /\ pc' = "fetch"
    /\ UNCHANGED <<op, resource, init, loggedIn, logged, response, outcome>>

\* fetchR2Objects and fetchWorker from requireApiToken to the call of fetch
bodyInitRequest ==
    /\ pc = "ready"
    /\ op \in {"fetchR2Objects", "fetchWorker"}
    /\ \E a \in ApiCredentials :
          LET h == addUserAgent(addAuthorizationHeaderIfUnspecified(cloneHeaders(init), a))
          IN  /\ auth' = a
              /\ headers' = h
              /\ sent' = Append(sent, [resource |-> resource, headers |-> h])
    /\ pc' = "fetch"
    /\ UNCHANGED <<op, resource, init, loggedIn, logged, response, outcome>>

\* variant with a seeded fault: a rejected fetch is tried again
fetchRejectsAndRetries ==
    /\ pc = "fetch"
    /\ pc' = "ready"
    /\ UNCHANGED <<op, resource, init, loggedIn, auth, headers, logged, sent, response, outcome>>

\* the promise of fetch rejects (no response): the await throws
fetchRejects ==
    /\ pc = "fetch"
    /\ pc' = "done"
    /\ outcome' = Throw([type |-> "TypeError", text |-> "fetch failed"])
    /\ UNCHANGED <<op, resource, init, loggedIn, auth, headers, logged, sent, response>>

\* performApiFetch returns the response as it is
performApiFetchResponse ==
    /\ pc = "fetch"
    /\ op = "performApiFetch"
    /\ \E r \in ResponsesOf(op) :
          /\ response' = r
          /\ outcome' = Return([tag |-> "response", response |-> r])
    /\ pc' = "done"
    /\ UNCHANGED <<op, resource, init, loggedIn, auth, headers, logged, sent>>

fetchInternal ==
    /\ pc = "fetch"
    /\ op = "fetchInternal"
    /\ \E r \in ResponsesOf(op) :
          /\ response' = r
          /\ logged' = Append(logged, logHeaders([form |-> "Headers", list |-> r.headers]))
          /\ outcome' = fetchInternalResult(resource, r)
    /\ pc' = "done"
    /\ UNCHANGED <<op, resource, init, loggedIn, auth, headers, sent>>

fetchKVGetValue ==
    /\ pc = "fetch"
    /\ op = "fetchKVGetValue"
    /\ \E r \in ResponsesOf(op) :
          /\ response' = r
          /\ outcome' = fetchKVGetValueResult(resource, r)
    /\ pc' = "done"
    /\ UNCHANGED <<op, resource, init, loggedIn, auth, headers, logged, sent>>

fetchR2Objects ==
    /\ pc = "fetch"
    /\ op = "fetchR2Objects"
    /\ \E r \in ResponsesOf(op) :
          /\ response' = r
          /\ outcome' = fetchR2ObjectsResult(resource, r)
    /\ pc' = "done"
    /\ UNCHANGED <<op, resource, init, loggedIn, auth, headers, logged, sent>>

fetchWorker ==
    /\ pc = "fetch"
    /\ op = "fetchWorker"
    /\ \E r \in ResponsesOf(op) :
          /\ response' = r
          /\ outcome' = fetchWorkerResult(resource, r)
    /\ pc' = "done"
    /\ UNCHANGED <<op, resource, init, loggedIn, auth, headers, logged, sent>>

Next ==
    \/ performApiFetchCall
    \/ fetchKVGetValueCall
    \/ bodyInitCall
    \/ requireLoggedIn
    \/ performApiFetchRequest
    \/ fetchKVGetValueRequest
    \/ bodyInitRequest
    \/ fetchRejects
    \/ performApiFetchResponse
    \/ fetchInternal
    \/ fetchKVGetValue
    \/ fetchR2Objects
    \/ fetchWorker

Spec == Init /\ [][Next]_vars

----------------------------------------------------------------------------
(* Vocabulary of the claims.                                               *)

\* the header entries the caller's value denotes (a Headers instance yields
\* its own normalised entries)
CallerEntries == IF init.form = "Headers" THEN entries(init.list) ELSE init.list

\* the values a header list carries under a name, header names compared
\* without regard to case as HTTP does
ValuesOf(list, lname) ==
    { list[i][2] : i \in { j \in 1..Len(list) : Lower(list[j][1]) = lname } }

Carries(list, lname) == ValuesOf(list, lname) # {}

TokenAuth(list) == Carries(list, "authorization")
KeyAuth(list) == Carries(list, "x-auth-key") /\ Carries(list, "x-auth-email")

Requested == sent # <<>>
Responded == pc = "done" /\ response # NoResponse

EmptyEnvelope ==
    [result |-> "{}", success |-> TRUE, errors |-> <<>>, messages |-> <<>>]

NoBodySpecialCase(r) == r.text = "" /\ r.status \in {204, 205}

Multipart(r) ==
    \E i \in 1..Len(r.headers) :
        /\ Lower(r.headers[i][1]) = "content-type"
        /\ StartsWith(r.headers[i][2], "multipart")

----------------------------------------------------------------------------
(* The claims.                                                             *)

\* C1: every request handed to fetch carries exactly one of token-auth (an
\* Authorization header) and key-auth (X-Auth-Key and X-Auth-Email): never
\* both and never neither.
C1_ExactlyOneAuth ==
    \A i \in 1..Len(sent) :
        TokenAuth(sent[i].headers) # KeyAuth(sent[i].headers)

C3_LoginBeforeRequest ==
    /\ [](Requested => (loggedIn = "true" /\ auth \in ApiCredentials))
    /\ [](loggedIn = "false" =>
            /\ pc = "done"
            /\ outcome = Throw([type |-> "UserError", text |-> "Not logged in."])
            /\ ~Requested)
    /\ [][sent' # sent => (loggedIn = "true" /\ auth' \in ApiCredentials)]_vars

C3_Witness == loggedIn = "false" /\ pc = "done" /\ op = "fetchWorker"

\* C4: a call hands at most one request to fetch, whatever the response or
\* failure, and it ends with a returned value or a thrown error.
C4_AtMostOneRequest ==
    /\ Len(sent) <= 1
    /\ pc = "done" <=> outcome.kind \in {"return", "throw"}
    /\ outcome.kind \in {"none", "return", "throw"}

C4_Witness ==
    /\ Responded
    /\ response.status = 500
    /\ outcome.kind = "throw"
    /\ Len(sent) = 1

\* C5: fetchInternal returns the successful empty envelope for a 204 or 205
\* response with an empty body; for an empty body with another status it
\* does not (it throws).
C5_EmptyBody ==
    (Responded /\ op = "fetchInternal" /\ response.text = "") =>
        IF response.status \in {204, 205}
        THEN outcome = Return(EmptyEnvelope)
        ELSE outcome.kind = "throw"

C5_Witness ==
    /\ Responded
    /\ op = "fetchInternal"
    /\ response.text = ""
    /\ response.status = 205
    /\ outcome.kind = "return"

\* C6: fetchInternal throws APIError "Received a malformed response from the
\* API" with the status of the response when the body is not JSON (the
\* 204/205 empty-body case aside), for success and error statuses alike.
C6_MalformedResponse ==
    (/\ Responded
     /\ op = "fetchInternal"
     /\ parseJSON(response.text) = NotJSON
     /\ ~NoBodySpecialCase(response)) =>
        /\ outcome.kind = "throw"
        /\ outcome.error.type = "APIError"
        /\ outcome.error.text = "Received a malformed response from the API"
        /\ outcome.error.status = response.status

C6_Witness ==
    /\ Responded
    /\ op = "fetchInternal"
    /\ response.text = "<html>"
    /\ response.status = 200
    /\ outcome.kind = "throw"

\* C7: fetchR2Objects returns the response iff it is ok and has a body;
\* otherwise null iff the status is 404; otherwise it throws "Failed to
\* fetch".  A returned response has a body.
C7_R2Outcomes ==
    (Responded /\ op = "fetchR2Objects") =>
        IF response.ok /\ response.body
        THEN outcome = Return([tag |-> "response", response |-> response])
        ELSE IF response.status = 404
        THEN outcome = Return([tag |-> "null"])
        ELSE /\ outcome.kind = "throw"
             /\ StartsWith(outcome.error.text, "Failed to fetch")

C7_Witness ==
    /\ Responded
    /\ op = "fetchR2Objects"
    /\ response.ok
    /\ ~response.body
    /\ outcome.kind = "throw"

\* C8: fetchWorker, on an ok response with a body, returns for a multipart
\* content-type one module per form entry and the cf-entrypoint header as
\* entrypoint ("src/index.js" without that header), and otherwise the single
\* module "index.js" with entrypoint "index.js"; on any other response it
\* throws.
C8_WorkerOutcomes ==
    (Responded /\ op = "fetchWorker") =>
        IF ~(response.ok /\ response.body)
        THEN outcome.kind = "throw"
        ELSE /\ outcome.kind = "return"
             /\ IF Multipart(response)
                THEN /\ Len(outcome.value.modules) = Len(response.form)
                     /\ \A i \in 1..Len(response.form) :
                           outcome.value.modules[i].name
                             = IF response.form[i].isFile
                               THEN response.form[i].fileName
                               ELSE response.form[i].name
                     /\ IF Carries(response.headers, "cf-entrypoint")
                        THEN ValuesOf(response.headers, "cf-entrypoint")
                               = {outcome.value.entrypoint}
                        ELSE outcome.value.entrypoint = "src/index.js"
                ELSE /\ outcome.value.modules = << [name |-> "index.js"] >>
                     /\ outcome.value.entrypoint = "index.js"

C8_Witness ==
    /\ Responded
    /\ op = "fetchWorker"
    /\ Multipart(response)
    /\ ~Carries(response.headers, "cf-entrypoint")
    /\ Len(response.form) = 2
    /\ outcome.kind = "return"

\* C9: an Authorization header supplied by the caller is sent unchanged: the
\* stored credential is not put in its place or beside it, and no X-Auth-Key
\* or X-Auth-Email header is added, in whatever form the caller gave the
\* headers.
C9_CallerAuthorizationKept ==
    (/\ Requested
     /\ op \in {"performApiFetch", "fetchR2Objects", "fetchWorker"}
     /\ TokenAuth(CallerEntries)) =>
        LET h == sent[1].headers
        IN  /\ TokenAuth(h)
            /\ ValuesOf(h, "authorization") \subseteq ValuesOf(CallerEntries, "authorization")
            /\ ValuesOf(h, "x-auth-key") \subseteq ValuesOf(CallerEntries, "x-auth-key")
            /\ ValuesOf(h, "x-auth-email") \subseteq ValuesOf(CallerEntries, "x-auth-email")

\* C10: no header set handed to the debug log as "HEADERS:" holds an
\* Authorization entry, in whatever form and casing the headers came.
C10_NoAuthorizationLogged ==
    \A i \in 1..Len(logged) : ~Carries(logged[i], "authorization")

====
